---- MODULE Spec2Model ----
(***************************************************************************)
(* Model of src/app.py: the three-stage fetch pipeline pobierz_icd10_nfz   *)
(* (benefits -> index-of-tables -> icd10-diseases), its st.cache_data      *)
(* memoization, and the disease-code / disease-name filter of main().      *)
(*                                                                         *)
(* Data frames are sequences of rows.  A cell that pandas fills with NaN   *)
(* (the key was absent from the JSON dict of that row) holds NaN; a column *)
(* exists in a frame exactly when some row holds a value for it.           *)
(***************************************************************************)
EXTENDS Integers, Sequences, FiniteSets, TLC

(* ------------------------------ bounds -------------------------------- *)
\* most benefit codes the benefits endpoint returns
MaxCodes == 2
\* most rows accumulated in df_all over one run
MaxTables == 2
\* most rows accumulated in df_allICD over one run
MaxDiseases == 2
\* most HTTP requests issued over one behaviour
MaxRequests == 4
\* longest disease-code and longest filter text of the results tab
MaxText == 2
\* most rows of the table shown in the results tab
MaxShown == 2

(* ------------------------------ values -------------------------------- *)
NaN == "NaN"
None == "None"
Unbound == "unbound"

ICD == "icd-10-diseases"
AllCodes == <<"b1", "b2", "b3", "b4">>
TypeVals == {ICD, "other", NaN}
IdVals == {"t1", "t2", NaN}
\* the JSON dicts of data.attributes.years[0].tables: every icd-10-diseases
\* entry, and the entries of another type or of no type with the id "t1"
LinkDicts == {d \in [type : TypeVals, id : IdVals] : d.type = ICD \/ d.id = "t1"}
\* the disease codes, in the order Python compares the strings
DiseaseCodes == <<"A00", "O80">>
\* the JSON dicts of data.attributes.data: the disease-code, or NaN when the
\* dict has no such key
DiseaseDicts == {DiseaseCodes[k] : k \in 1..Len(DiseaseCodes)} \cup {NaN}

Range(s) == {s[k] : k \in 1..Len(s)}

SeqsUpTo(S, n) == UNION {[1..m -> S] : m \in 0..n}

(* ------------------------------ state --------------------------------- *)
VARIABLES
    args,          \* <<szuk, rok, limit>> of the current invocation
    pc,            \* position in pobierz_icd10_nfz, or how it ended
    codes,         \* list(df_wysz["code"])
    i,             \* loop index of stage 2
    df_all,        \* accumulated index-of-tables rows
    lista_bledow,  \* accumulated error dicts
    df_linkICD,    \* df_all filtered to type == "icd-10-diseases"
    j,             \* loop index of stage 3
    id_value,      \* the local id_value, Unbound before its first assignment
    df_allICD,     \* accumulated disease rows
    progress,      \* the progress reports emitted, in order
    calls,         \* the HTTP requests of this run with their responses
    nreq,          \* number of HTTP requests issued so far
    ret,           \* the pair handed to the caller
    cache,         \* st.cache_data entries: key -> returned pair
    returned,      \* per argument triple, the pair its first run returned
    df_icd,        \* main(): st.session_state["df_icd"] shown in the results tab
    code_filter,   \* main(): st.session_state["filt_code_applied"]
    name_filter,   \* main(): st.session_state["filt_name_applied"]
    df_filtr,      \* main(): the filtered table handed to st.dataframe
    filt_code_input,  \* main(): st.session_state["filt_code_input"], the widget's text
    filt_name_input,  \* main(): st.session_state["filt_name_input"], the widget's text
    ui             \* position in the filter section of main(), or the last event

pipeVars == <<args, pc, codes, i, df_all, lista_bledow, df_linkICD, j, id_value,
              df_allICD, progress, calls, nreq, ret, cache, returned>>
uiVars == <<df_icd, code_filter, name_filter, df_filtr, filt_code_input,
            filt_name_input, ui>>
vars == <<args, pc, codes, i, df_all, lista_bledow, df_linkICD, j, id_value,
          df_allICD, progress, calls, nreq, ret, cache, returned,
          df_icd, code_filter, name_filter, df_filtr, filt_code_input,
          filt_name_input, ui>>

(* --------------------------- error records ---------------------------- *)
ErrorColumns == {"etap", "kod/ID", "komunikat"}

ErrorDict(etap, kod, komunikat) ==
    ("etap" :> etap) @@ ("kod/ID" :> kod) @@ ("komunikat" :> komunikat)

\* the four messages of stage 1, by the way it failed
BenefitsMessage(kind) ==
    CASE kind = "nodata" -> "Brak klucza 'data'"
      [] kind = "empty" -> "Brak wynikow"
      [] kind = "nocode" -> "Brak kolumny 'code'"
      [] OTHER -> "str(e)"

\* the stage-1 record tagged with the stage of the next loop
BenefitsErrorOtherStage(kind) == ErrorDict("index-of-tables", None, BenefitsMessage(kind))

BenefitsError(kind) == ErrorDict("benefits", None, BenefitsMessage(kind))

\* the stage-2 record without the benefit code
IndexErrorWithoutCode(kod, kind) ==
    ErrorDict("index-of-tables", None,
              IF kind = "nodata" THEN "Brak klucza 'data'" ELSE "str(e)")

IndexError(kod, kind) ==
    ErrorDict("index-of-tables", kod,
              IF kind = "nodata" THEN "Brak klucza 'data'" ELSE "str(e)")

\* the stage-3 record without the link id
IcdErrorWithoutId(id, kind) ==
    ErrorDict("icd10-diseases", None,
              IF kind = "nodata" THEN "Brak klucza 'data'" ELSE "str(e)")

IcdError(id, kind) ==
    ErrorDict("icd10-diseases", id,
              IF kind = "nodata" THEN "Brak klucza 'data'" ELSE "str(e)")

\* the missing-column record tagged as a stage-3 failure
MissingTypeErrorOtherStage == ErrorDict("icd10-diseases", None, "Brak kolumny 'type'")

MissingTypeError == ErrorDict("index-of-tables", None, "Brak kolumny 'type'")

\* pd.DataFrame(list of dicts): the columns are the keys of the dicts
DataFrameOfDicts(dicts) ==
    [columns |-> UNION {DOMAIN dicts[k] : k \in 1..Len(dicts)}, rows |-> dicts]

\* pd.DataFrame() in place of the frame with the three named columns
EmptyFrameWithoutColumns == [columns |-> {}, rows |-> <<>>]

\* pd.DataFrame(columns=["etap", "kod/ID", "komunikat"])
EmptyErrorFrame == [columns |-> ErrorColumns, rows |-> <<>>]

\* pd.DataFrame(lista_bledow) if lista_bledow else pd.DataFrame(columns=[...])
ErrorFrame(bledy) ==
    IF bledy # <<>> THEN DataFrameOfDicts(bledy) ELSE EmptyErrorFrame

(* ------------------------------ frames -------------------------------- *)
\* "col" in df.columns
HasColumn(df, col) == \E k \in 1..Len(df) : df[k][col] # NaN

\* "disease-code" in df.columns
HasDiseaseCode(df) == \E k \in 1..Len(df) : df[k].dc # NaN

\* df_kod = pd.DataFrame(tables); df_kod["code"] = kod
StampLinks(tables, kod) ==
    [k \in 1..Len(tables) |-> [type |-> tables[k].type, id |-> tables[k].id, code |-> kod]]

\* stamping with the benefit code left over from the stage-2 loop
StampDiseasesLastKod(rows, kod) ==
    [k \in 1..Len(rows) |-> [dc |-> rows[k], bc |-> codes[Len(codes)]]]

\* df_icd = pd.DataFrame(data); df_icd["benefit-code"] = row["code"]
StampDiseases(rows, kod) ==
    [k \in 1..Len(rows) |-> [dc |-> rows[k], bc |-> kod]]

\* df_all[df_all["type"] == "icd-10-diseases"]
SelectIcdLinks(df) == SelectSeq(df, LAMBDA r : r.type = ICD)

\* DataFrame.drop_duplicates(): keep the first of equal rows
RECURSIVE DropDuplicates(_)
DropDuplicates(df) ==
    IF df = <<>> THEN <<>>
    ELSE LET init == DropDuplicates(SubSeq(df, 1, Len(df) - 1))
             last == df[Len(df)]
         IN  IF last \in Range(init) THEN init ELSE Append(init, last)

\* the rank of a disease-code in the comparison of sort_values, which puts
\* NaN last
SortKey(r) ==
    IF r.dc = NaN THEN Len(DiseaseCodes) + 1
    ELSE CHOOSE k \in 1..Len(DiseaseCodes) : DiseaseCodes[k] = r.dc

\* the orders sort_values(by="disease-code") may produce of the rows at the
\* positions I of df: ascending by key, rows of equal key in any order
\* (the default sort kind is not stable)
RECURSIVE SortedOrders(_, _)
SortedOrders(df, I) ==
    IF I = {} THEN {<<>>}
    ELSE LET least == {x \in I : \A y \in I : SortKey(df[x]) <= SortKey(df[y])}
         IN  UNION {{<<df[x]>> \o t : t \in SortedOrders(df, I \ {x})} : x \in least}

\* the table left in fetch order
SortValuesSkipped(df) == {df}

SortValues(df) == SortedOrders(df, 1..Len(df))

\* step 4 of the pipeline: the tables it may return for an accumulator
Finalized(df) ==
    IF df = <<>> THEN {df}
    ELSE IF HasDiseaseCode(DropDuplicates(df)) THEN SortValues(DropDuplicates(df))
    ELSE {DropDuplicates(df)}

(* ----------------------------- responses ------------------------------ *)
\* what GET /benefits can lead to: an exception (network, HTTP status, JSON),
\* a body without "data", no record, records without "code", or n codes
BenefitsResponses(limit) ==
    {[kind |-> k, codes |-> <<>>] : k \in {"exception", "nodata", "empty", "nocode"}}
    \cup {[kind |-> "ok", codes |-> SubSeq(AllCodes, 1, n)] :
            n \in 1..(IF limit < MaxCodes THEN limit ELSE MaxCodes)}

\* what GET /index-of-tables can lead to, with room for `room` more rows
IndexResponses(room) ==
    {[kind |-> k, tables |-> <<>>] : k \in {"exception", "nodata"}}
    \cup {[kind |-> "ok", tables |-> t] : t \in SeqsUpTo(LinkDicts, room)}

\* what GET /icd10-diseases/<id> can lead to, with room for `room` more rows
IcdResponses(room) ==
    {[kind |-> k, rows |-> <<>>] : k \in {"exception", "nodata"}}
    \cup {[kind |-> "ok", rows |-> t] : t \in SeqsUpTo(DiseaseDicts, room)}

(* ------------------------------- cache -------------------------------- *)
\* a key that leaves the year out
CacheKeyWithoutYear(szuk, rok, limit) == <<szuk, limit>>

\* st.cache_data keys an entry by the values of all arguments
CacheKey(szuk, rok, limit) == <<szuk, rok, limit>>

KeyOf(a) == CacheKey(a[1], a[2], a[3])

\* the argument triples of the memoized session: limit 1 keeps the benefits
\* list to one code
MemoArgs == {<<"rozrodcz", 2019, 1>>, <<"rozrodcz", 2020, 1>>}

NoReturn == [res |-> <<>>, err |-> [columns |-> {}, rows |-> <<>>]]

Returned == {"return_benefits", "return_empty", "return_notype", "return_final"}
Quiescent == Returned \cup {"idle", "cached", "raised"}

\* a return statement of the decorated function: the pair goes to the caller
\* and into the cache
Return(site, res, err) ==
    LET pair == [res |-> res, err |-> err]
    IN  /\ pc' = site
        /\ ret' = pair
        /\ cache' = (KeyOf(args) :> pair) @@ cache
        /\ returned' = IF args \in DOMAIN returned THEN returned
                       ELSE (args :> pair) @@ returned

(* ------------------------------ actions ------------------------------- *)
\* lines 108-158: stage 1, the benefits call and its checks
Benefits ==
    /\ pc = "benefits"
    /\ nreq < MaxRequests
    /\ \E resp \in BenefitsResponses(args[3]) :
        /\ calls' = Append(calls, [ep |-> "benefits", arg |-> args[1], kind |-> resp.kind,
                                   data |-> resp.codes])
        /\ nreq' = nreq + 1
        /\ IF resp.kind # "ok"
           THEN /\ Return("return_benefits", <<>>,
                          DataFrameOfDicts(<<BenefitsError(resp.kind)>>))
                /\ UNCHANGED <<codes, i>>
           ELSE /\ codes' = resp.codes
                /\ i' = 1
                /\ pc' = "index"
                /\ UNCHANGED <<ret, cache, returned>>
    /\ UNCHANGED <<args, df_all, lista_bledow, df_linkICD, j, id_value, df_allICD, progress>>
    /\ UNCHANGED uiVars

\* lines 160-200: one iteration of the stage-2 loop
IndexOfTables ==
    /\ pc = "index"
    /\ i <= Len(codes)
    /\ nreq < MaxRequests
    /\ LET kod == codes[i]
           report == <<"index-of-tables", i, Len(codes)>>
       IN \E resp \in IndexResponses(MaxTables - Len(df_all)) :
            /\ calls' = Append(calls, [ep |-> "index-of-tables", arg |-> kod,
                                       kind |-> resp.kind, data |-> resp.tables])
            /\ nreq' = nreq + 1
            /\ CASE resp.kind = "nodata" ->
                      \* continue: the progress update is skipped
                      /\ lista_bledow' = Append(lista_bledow, IndexError(kod, "nodata"))
                      /\ UNCHANGED <<df_all, progress>>
                 [] resp.kind = "exception" ->
                      /\ lista_bledow' = Append(lista_bledow, IndexError(kod, "exception"))
                      /\ progress' = Append(progress, report)
                      /\ UNCHANGED df_all
                 [] OTHER ->
                      /\ df_all' = df_all \o StampLinks(resp.tables, kod)
                      /\ progress' = Append(progress, report)
                      /\ UNCHANGED lista_bledow
    /\ i' = i + 1
    /\ pc' = IF i = Len(codes) THEN "links" ELSE "index"
    /\ UNCHANGED <<args, codes, df_linkICD, j, id_value, df_allICD, ret, cache, returned>>
    /\ UNCHANGED uiVars

\* lines 202-227: after the stage-2 loop
SelectLinks ==
    /\ pc = "links"
    /\ IF df_all = <<>>
       THEN /\ Return("return_empty", <<>>, ErrorFrame(lista_bledow))
            /\ UNCHANGED <<lista_bledow, df_linkICD, j>>
       ELSE IF ~HasColumn(df_all, "type")
       THEN /\ lista_bledow' = Append(lista_bledow, MissingTypeError)
            /\ Return("return_notype", <<>>, DataFrameOfDicts(lista_bledow'))
            /\ UNCHANGED <<df_linkICD, j>>
       ELSE /\ df_linkICD' = SelectIcdLinks(df_all)
            /\ j' = 1
            /\ pc' = IF df_linkICD' = <<>> THEN "final" ELSE "icd"
            /\ UNCHANGED <<lista_bledow, ret, cache, returned>>
    /\ UNCHANGED <<args, codes, i, df_all, id_value, df_allICD, progress, calls, nreq>>
    /\ UNCHANGED uiVars

\* lines 229-273: one iteration of the stage-3 loop
Icd10Diseases ==
    /\ pc = "icd"
    /\ j <= Len(df_linkICD)
    /\ LET row == df_linkICD[j]
           report == <<"icd10-diseases", j, Len(df_linkICD)>>
           next == IF j = Len(df_linkICD) THEN "final" ELSE "icd"
       IN IF ~HasColumn(df_all, "id")
          THEN \* row["id"] raises KeyError; the handler reads id_value
               IF id_value = Unbound
               THEN /\ pc' = "raised"
                    /\ UNCHANGED <<lista_bledow, progress, j, id_value, df_allICD, calls, nreq>>
               ELSE /\ lista_bledow' = Append(lista_bledow, IcdError(id_value, "exception"))
                    /\ progress' = Append(progress, report)
                    /\ j' = j + 1
                    /\ pc' = next
                    /\ UNCHANGED <<id_value, df_allICD, calls, nreq>>
          ELSE /\ nreq < MaxRequests
               /\ id_value' = row.id
               /\ \E resp \in IcdResponses(MaxDiseases - Len(df_allICD)) :
                    /\ calls' = Append(calls, [ep |-> "icd10-diseases", arg |-> row.id,
                                               kind |-> resp.kind, data |-> resp.rows])
                    /\ nreq' = nreq + 1
                    /\ CASE resp.kind = "nodata" ->
                              /\ lista_bledow' = Append(lista_bledow, IcdError(id_value', "nodata"))
                              /\ UNCHANGED <<df_allICD, progress>>
                         [] resp.kind = "exception" ->
                              /\ lista_bledow' = Append(lista_bledow, IcdError(id_value', "exception"))
                              /\ progress' = Append(progress, report)
                              /\ UNCHANGED df_allICD
                         [] OTHER ->
                              /\ df_allICD' = df_allICD \o StampDiseases(resp.rows, row.code)
                              /\ progress' = Append(progress, report)
                              /\ UNCHANGED lista_bledow
               /\ j' = j + 1
               /\ pc' = next
    /\ UNCHANGED <<args, codes, i, df_all, df_linkICD, ret, cache, returned>>
    /\ UNCHANGED uiVars

\* lines 275-287: drop duplicates, sort, build the error table, return
Finalize ==
    /\ pc = "final"
    /\ \E res \in Finalized(df_allICD) :
         Return("return_final", res, ErrorFrame(lista_bledow))
    /\ UNCHANGED <<args, codes, i, df_all, lista_bledow, df_linkICD, j, id_value,
                   df_allICD, progress, calls, nreq>>
    /\ UNCHANGED uiVars

\* line 90 and lines 340-344: a call of the memoized function.  A cached
\* entry for the arguments is handed back without running the body
Call ==
    /\ pc \in Quiescent
    /\ \E t \in MemoArgs :
         /\ args' = t
         /\ IF KeyOf(t) \in DOMAIN cache
            THEN /\ ret' = cache[KeyOf(t)]
                 /\ pc' = "cached"
            ELSE /\ ret' = NoReturn
                 /\ pc' = "benefits"
    \* the locals of an earlier execution of the body are gone
    /\ codes' = <<>>
    /\ i' = 0
    /\ df_all' = <<>>
    /\ lista_bledow' = <<>>
    /\ df_linkICD' = <<>>
    /\ j' = 0
    /\ id_value' = Unbound
    /\ df_allICD' = <<>>
    /\ progress' = <<>>
    /\ calls' = <<>>
    /\ UNCHANGED <<nreq, cache, returned>>
    /\ UNCHANGED uiVars

(* ------------------------- the filter of main() ----------------------- *)
\* In the results tab a text cell is a sequence of characters, and a cell
\* pandas filled with NaN is NaNCell.
Chars == {"C", "c", "."}
NaNCell == <<NaN>>

Texts(n) == UNION {[1..m -> Chars] : m \in 1..n}

\* Series.astype(str): NaN becomes the text "nan"
AsTypeStr(v) == IF v = NaNCell THEN <<"n", "a", "n">> ELSE v

\* case=False compiles the pattern with re.IGNORECASE
Lower(ch) == IF ch = "C" THEN "c" ELSE ch

\* the pattern, read as a regular expression (regex=True is the default of
\* str.contains), matches the text at position p: "." stands for any
\* character, every other character of Chars for itself
MatchesAt(text, pat, p) ==
    \A k \in 1..Len(pat) : pat[k] = "." \/ Lower(pat[k]) = Lower(text[p + k - 1])

\* Series.str.contains(pat, case=False, na=False) on one cell: re.search
StrContains(text, pat) ==
    \E p \in 1..(Len(text) - Len(pat) + 1) : MatchesAt(text, pat, p)

HasCell(df, col) == \E k \in 1..Len(df) : df[k][col] # NaNCell

\* lines 446-451 and 453-458: one filter step on one column
FilterColumn(df, col, pat) ==
    IF pat # <<>> /\ HasCell(df, col)
    THEN SelectSeq(df, LAMBDA r : StrContains(AsTypeStr(r[col]), pat))
    ELSE df

\* lines 441-458
ApplyFilters(df, cf, nf) == FilterColumn(FilterColumn(df, "dc", cf), "dn", nf)

\* lines 404-483: the results tab renders the filtered table
RenderResults ==
    /\ ui = "render"
    /\ df_icd # <<>>
    /\ df_filtr' = ApplyFilters(df_icd, code_filter, name_filter)
    /\ ui' = "shown"
    /\ UNCHANGED <<df_icd, code_filter, name_filter, filt_code_input, filt_name_input>>
    /\ UNCHANGED pipeVars

(* --------------------------- specification ---------------------------- *)
RunArgs == <<"rozrodcz", 2019, MaxCodes>>

InitLocals ==
    /\ codes = <<>>
    /\ i = 0
    /\ df_all = <<>>
    /\ lista_bledow = <<>>
    /\ df_linkICD = <<>>
    /\ j = 0
    /\ id_value = Unbound
    /\ df_allICD = <<>>
    /\ progress = <<>>
    /\ calls = <<>>

InitUi ==
    /\ df_icd = <<>>
    /\ code_filter = <<>>
    /\ name_filter = <<>>
    /\ df_filtr = <<>>
    /\ filt_code_input = <<>>
    /\ filt_name_input = <<>>
    /\ ui = "off"

\* one execution of the body of pobierz_icd10_nfz on an empty cache
Init ==
    /\ args = RunArgs
    /\ pc = "benefits"
    /\ InitLocals
    /\ nreq = 0
    /\ ret = NoReturn
    /\ cache = <<>>
    /\ returned = <<>>
    /\ InitUi

Next ==
    \/ Benefits
    \/ IndexOfTables
    \/ SelectLinks
    \/ Icd10Diseases
    \/ Finalize

Spec == Init /\ [][Next]_vars

\* a session that calls the memoized function repeatedly
InitMemo ==
    /\ args \in MemoArgs
    /\ pc = "idle"
    /\ InitLocals
    /\ nreq = 0
    /\ ret = NoReturn
    /\ cache = <<>>
    /\ returned = <<>>
    /\ InitUi

NextMemo ==
    \/ Call
    \/ Benefits
    \/ IndexOfTables
    \/ SelectLinks
    \/ Icd10Diseases
    \/ Finalize

SpecMemo == InitMemo /\ [][NextMemo]_vars

\* the results tab on any fetched table and any applied filters
DiseaseCells == Texts(MaxText) \cup {NaNCell}
NameCells == {<<"c">>, <<".">>}
FilterRows == [dc : DiseaseCells, dn : NameCells]

InitFilter ==
    /\ args = RunArgs
    /\ pc = "idle"
    /\ InitLocals
    /\ nreq = 0
    /\ ret = NoReturn
    /\ cache = <<>>
    /\ returned = <<>>
    /\ df_icd \in UNION {[1..m -> FilterRows] : m \in 1..MaxShown}
    /\ code_filter \in Texts(MaxText) \cup {<<>>}
    /\ name_filter \in {<<>>, <<"c">>}
    /\ df_filtr = <<>>
    /\ filt_code_input = <<>>
    /\ filt_name_input = <<>>
    /\ ui = "render"

NextFilter == RenderResults

SpecFilter == InitFilter /\ [][NextFilter]_vars

(* ------------------------------ session ------------------------------- *)
\* A browser session of main(): every event reruns the script, so each action
\* below is the event together with the rerun it causes. A key absent from
\* st.session_state reads as the empty text (lines 411-414, 443-444).
InputTexts == {<<>>, <<"c">>, <<".">>}
SzukTexts == {"", "rozrodcz"}
\* what pobierz_icd10_nfz can hand back as its result table
FetchedTables ==
    {<<>>,
     <<[dc |-> <<"C">>, dn |-> <<"c">>]>>,
     <<[dc |-> <<"C">>, dn |-> <<"c">>], [dc |-> <<"c">>, dn |-> <<".">>]>>}

\* clearing the input fields only
ClearInputsOnly(ss) ==
    [ss EXCEPT !.filt_code_input = <<>>, !.filt_name_input = <<>>]

\* lines 78-84: the callback of the Clear button, on the session state
clear_filters(ss) ==
    [ss EXCEPT !.filt_code_input = <<>>, !.filt_name_input = <<>>,
               !.filt_code_applied = <<>>, !.filt_name_applied = <<>>]

SessionState ==
    [filt_code_input |-> filt_code_input, filt_name_input |-> filt_name_input,
     filt_code_applied |-> code_filter, filt_name_applied |-> name_filter]

\* lines 404-458: what the results tab shows for a table and applied filters
Displayed(df, cf, nf) == IF df = <<>> THEN <<>> ELSE ApplyFilters(df, cf, nf)

\* lines 321-359: the sidebar button; the applied filters are not touched
Fetch ==
    /\ \E szuk \in SzukTexts, raises \in BOOLEAN, t \in FetchedTables :
         IF szuk = ""
         THEN /\ df_icd' = df_icd
              /\ df_filtr' = Displayed(df_icd, code_filter, name_filter)
         ELSE IF raises
         THEN \* the exception ends the script run before anything is stored
              /\ df_icd' = df_icd
              /\ df_filtr' = <<>>
         ELSE /\ df_icd' = t
              /\ df_filtr' = Displayed(t, code_filter, name_filter)
    /\ ui' = "fetch"
    /\ UNCHANGED <<code_filter, name_filter, filt_code_input, filt_name_input>>
    /\ UNCHANGED pipeVars

\* lines 418-423: the user commits another text in the disease-code field
EditCodeInput ==
    /\ df_icd # <<>>
    /\ \E t \in InputTexts \ {filt_code_input} : filt_code_input' = t
    /\ df_filtr' = Displayed(df_icd, code_filter, name_filter)
    /\ ui' = "edit"
    /\ UNCHANGED <<df_icd, code_filter, name_filter, filt_name_input>>
    /\ UNCHANGED pipeVars

\* lines 425-430: the user commits another text in the disease-name field
EditNameInput ==
    /\ df_icd # <<>>
    /\ \E t \in InputTexts \ {filt_name_input} : filt_name_input' = t
    /\ df_filtr' = Displayed(df_icd, code_filter, name_filter)
    /\ ui' = "edit"
    /\ UNCHANGED <<df_icd, code_filter, name_filter, filt_code_input>>
    /\ UNCHANGED pipeVars

\* lines 435-437: the Apply button copies the inputs into the applied filters
ApplyFiltersButton ==
    /\ df_icd # <<>>
    /\ code_filter' = filt_code_input
    /\ name_filter' = filt_name_input
    /\ df_filtr' = Displayed(df_icd, code_filter', name_filter')
    /\ ui' = "apply"
    /\ UNCHANGED <<df_icd, filt_code_input, filt_name_input>>
    /\ UNCHANGED pipeVars

\* line 438: the Clear button runs clear_filters, then the script reruns
ClearFiltersButton ==
    /\ df_icd # <<>>
    /\ LET ss == clear_filters(SessionState)
       IN  /\ filt_code_input' = ss.filt_code_input
           /\ filt_name_input' = ss.filt_name_input
           /\ code_filter' = ss.filt_code_applied
           /\ name_filter' = ss.filt_name_applied
    /\ df_filtr' = Displayed(df_icd, code_filter', name_filter')
    /\ ui' = "clear"
    /\ UNCHANGED df_icd
    /\ UNCHANGED pipeVars

\* the first script run of a session: nothing fetched, nothing typed
InitSession ==
    /\ args = RunArgs
    /\ pc = "idle"
    /\ InitLocals
    /\ nreq = 0
    /\ ret = NoReturn
    /\ cache = <<>>
    /\ returned = <<>>
    /\ df_icd = <<>>
    /\ code_filter = <<>>
    /\ name_filter = <<>>
    /\ df_filtr = <<>>
    /\ filt_code_input = <<>>
    /\ filt_name_input = <<>>
    /\ ui = "start"

NextSession ==
    \/ Fetch
    \/ EditCodeInput
    \/ EditNameInput
    \/ ApplyFiltersButton
    \/ ClearFiltersButton

SpecSession == InitSession /\ [][NextSession]_vars


(* ------------------------------- claims ------------------------------- *)
IndexCalls == SelectSeq(calls, LAMBDA c : c.ep = "index-of-tables")
IcdCalls == SelectSeq(calls, LAMBDA c : c.ep = "icd10-diseases")
IcdErrors(rows) == SelectSeq(rows, LAMBDA e : e["etap"] = "icd10-diseases")
FailedCalls(cs) == SelectSeq(cs, LAMBDA c : c.kind # "ok")

CodeRank(dc) == CHOOSE k \in 1..Len(DiseaseCodes) : DiseaseCodes[k] = dc

NoIdenticalRows(df) ==
    \A a, b \in 1..Len(df) : a # b => df[a] # df[b]

NonDecreasingByCode(df) ==
    \A a, b \in 1..Len(df) :
        (a < b /\ df[a].dc # NaN /\ df[b].dc # NaN) => CodeRank(df[a].dc) <= CodeRank(df[b].dc)

\* C1: a table returned by finalization holds no two identical rows and, when
\* it has a disease-code column, its rows are in non-decreasing order of
\* disease-code (rows without a code, which sort_values puts last, aside),
\* whatever calls of the run failed.
C1_FinalTableDedupedAndSorted ==
    pc = "return_final" =>
        /\ NoIdenticalRows(ret.res)
        /\ HasDiseaseCode(ret.res) => NonDecreasingByCode(ret.res)

\* a run with a failed call whose two fetched rows came back out of order
C1_Witness ==
    /\ pc = "return_final"
    /\ lista_bledow # <<>>
    /\ Len(ret.res) = 2
    /\ ret.res # df_allICD
    /\ NonDecreasingByCode(ret.res)

StageOneFailed == calls # <<>> /\ calls[1].ep = "benefits" /\ calls[1].kind # "ok"

\* C2: when the benefits call fails in any of its four ways, the function
\* returns an empty result table and an error table of exactly one row,
\* tagged etap = "benefits" with kod/ID null.
C2_StageOneFailureReturnsOneBenefitsError ==
    StageOneFailed =>
        /\ pc = "return_benefits"
        /\ ret.res = <<>>
        /\ Len(ret.err.rows) = 1
        /\ ret.err.rows[1]["etap"] = "benefits"
        /\ ret.err.rows[1]["kod/ID"] = None

C2_Witness ==
    /\ StageOneFailed
    /\ calls[1].kind = "empty"
    /\ pc = "return_benefits"
    /\ ret.err.rows[1]["komunikat"] = "Brak wynikow"

AllIndexCallsFailed ==
    /\ Len(codes) >= 1
    /\ Len(IndexCalls) = Len(codes)
    /\ \A k \in 1..Len(IndexCalls) : IndexCalls[k].kind # "ok"

\* C3: when every index-of-tables call of a run failed, the function returns
\* an empty result table and an error table with one row per benefit code, in
\* list order, each tagged etap = "index-of-tables" with kod/ID that code, and
\* no icd10-diseases request is issued.
C3_AllIndexFailuresReturnOneErrorPerCode ==
    (AllIndexCallsFailed /\ pc # "links") =>
        /\ pc = "return_empty"
        /\ ret.res = <<>>
        /\ Len(ret.err.rows) = Len(codes)
        /\ \A k \in 1..Len(codes) :
             /\ ret.err.rows[k]["etap"] = "index-of-tables"
             /\ ret.err.rows[k]["kod/ID"] = codes[k]
        /\ IcdCalls = <<>>

C3_Witness ==
    /\ AllIndexCallsFailed
    /\ pc = "return_empty"
    /\ Len(codes) = 2
    /\ IndexCalls[1].kind = "nodata"
    /\ IndexCalls[2].kind = "exception"

\* the rows a successful icd10-diseases call contributes
RowsOfCall(k) == Range(StampDiseases(IcdCalls[k].data, df_linkICD[k].code))

\* C4: in stage 3 the k-th call is made for the k-th icd-10-diseases link; the
\* error table holds exactly one icd10-diseases row per failed call, in call
\* order, with kod/ID the id of the link of that call; the returned table holds
\* only rows of successful calls; and once a call was made the run does not end
\* before every link was called.
C4_PartialIcdFailures ==
    /\ Len(IcdCalls) <= Len(df_linkICD)
    /\ \A k \in 1..Len(IcdCalls) : IcdCalls[k].arg = df_linkICD[k].id
    /\ Len(IcdErrors(lista_bledow)) = Len(FailedCalls(IcdCalls))
    /\ \A k \in 1..Len(FailedCalls(IcdCalls)) :
         IcdErrors(lista_bledow)[k]["kod/ID"] = FailedCalls(IcdCalls)[k].arg
    /\ (IcdCalls # <<>> /\ pc \in Quiescent) =>
         /\ pc = "return_final"
         /\ Len(IcdCalls) = Len(df_linkICD)
    /\ pc = "return_final" =>
         /\ IcdErrors(ret.err.rows) = IcdErrors(lista_bledow)
         /\ Range(ret.res) \subseteq
              UNION {RowsOfCall(k) : k \in {x \in 1..Len(IcdCalls) : IcdCalls[x].kind = "ok"}}

\* the first link's call failed, the second link, of another id, succeeded
C4_Witness ==
    /\ pc = "return_final"
    /\ Len(IcdCalls) = 2
    /\ IcdCalls[1].kind = "exception"
    /\ IcdCalls[2].kind = "ok"
    /\ IcdCalls[1].arg # IcdCalls[2].arg
    /\ ret.res # <<>>
    /\ Len(ret.err.rows) = 1
    /\ ret.err.rows[1]["kod/ID"] = df_linkICD[1].id

\* C5: no execution of the function ends by raising an exception to its
\* caller.
C5_NeverRaises == pc # "raised"


\* a step taken while no execution of the body is under way is a call
CallServedOrRun ==
    pc \in Quiescent =>
        IF args' \in DOMAIN returned
        THEN pc' = "cached" /\ nreq' = nreq /\ ret' = returned[args']
        ELSE pc' = "benefits" /\ ret' = NoReturn

\* C6: a call made with a triple whose earlier run returned is served without
\* any request and hands back the pair that run returned; a call with a triple
\* no run has returned for executes the body.
C6_MemoizedCallServedFromCache == [][CallServedOrRun]_vars

\* a second call served the pair, with its error rows, of the first run,
\* while no run was made for the other triple
C6_Witness ==
    /\ pc = "cached"
    /\ args \in DOMAIN returned
    /\ ret = returned[args]
    /\ ret.err.rows # <<>>
    /\ nreq >= 2
    /\ \E t \in MemoArgs : t \notin DOMAIN returned

ContainsIgnoringCase(text, sub) ==
    \E p \in 1..(Len(text) - Len(sub) + 1) :
        \A k \in 1..Len(sub) : Lower(sub[k]) = Lower(text[p + k - 1])

\* C7: with no name filter and a disease-code in every row, the table shown is
\* exactly the rows whose disease-code contains the code filter as a
\* substring, ignoring case, in their order, and the whole table when the code
\* filter is empty.
C7_CodeFilterKeepsExactlyContainingRows ==
    (ui = "shown" /\ name_filter = <<>> /\ \A k \in 1..Len(df_icd) : df_icd[k].dc # NaNCell) =>
        df_filtr = IF code_filter = <<>> THEN df_icd
                   ELSE SelectSeq(df_icd, LAMBDA r :
                            r.dc # NaNCell /\ ContainsIgnoringCase(r.dc, code_filter))

IsMissingTypeRecord(e) ==
    /\ e["etap"] = "index-of-tables"
    /\ e["kod/ID"] = None
    /\ e["komunikat"] = "Brak kolumny 'type'"

\* C8 as stated: on the abort for a missing type column the error table holds
\* the record of the missing column and nothing else.
C8_MissingTypeIsSoleRecord ==
    pc = "return_notype" =>
        /\ ret.res = <<>>
        /\ IcdCalls = <<>>
        /\ Len(ret.err.rows) = 1
        /\ IsMissingTypeRecord(ret.err.rows[1])

\* C8 amended: on the abort for a missing type column no icd10-diseases
\* request was issued, the result table is empty, and the error table holds
\* one index-of-tables record per failed index-of-tables call of the run, in
\* call order, followed by the record of the missing column as its last row.
C8_MissingTypeIsLastRecord ==
    pc = "return_notype" =>
        LET failed == FailedCalls(IndexCalls)
            n == Len(ret.err.rows)
        IN  /\ ret.res = <<>>
            /\ IcdCalls = <<>>
            /\ n = Len(failed) + 1
            /\ IsMissingTypeRecord(ret.err.rows[n])
            /\ \A k \in 1..Len(failed) :
                 /\ ret.err.rows[k]["etap"] = "index-of-tables"
                 /\ ret.err.rows[k]["kod/ID"] = failed[k].arg

\* the first index-of-tables call failed, the second listed a table without type
C8_Witness ==
    /\ pc = "return_notype"
    /\ Len(codes) = 2
    /\ IndexCalls[1].kind # "ok"
    /\ Len(ret.err.rows) = 2
    /\ ret.err.rows[1]["kod/ID"] = codes[1]

\* C9: on every return path the error table has exactly the columns etap,
\* kod/ID and komunikat, also when it has no row.
C9_ErrorTableColumns ==
    pc \in Returned => ret.err.columns = {"etap", "kod/ID", "komunikat"}

\* a run without any failure that found no table
C9_Witness ==
    /\ pc = "return_empty"
    /\ ret.err.rows = <<>>
    /\ ret.err.columns = {"etap", "kod/ID", "komunikat"}

\* C10: the requests of a run are one benefits call, then, only when stage 1
\* passed, one index-of-tables call per benefit code in list order, then one
\* icd10-diseases call per icd-10-diseases link in table order, each issued
\* once: at most 1 + N + M calls, and all of them once the run has ended past
\* the type check.
C10_CallsInStageOrder ==
    LET N == Len(codes)
        links == SelectIcdLinks(df_all)
    IN  /\ Len(calls) <= 1 + N + Len(links)
        /\ \A k \in 1..Len(calls) :
             IF k = 1 THEN calls[k].ep = "benefits"
             ELSE IF k <= 1 + N
             THEN calls[k].ep = "index-of-tables" /\ calls[k].arg = codes[k - 1]
             ELSE /\ calls[k].ep = "icd10-diseases"
                  /\ calls[k].arg = links[k - 1 - N].id
                  /\ Len(IndexCalls) = N
        /\ Len(calls) > 1 => calls[1].kind = "ok"
        /\ pc \in {"return_final", "raised"} => Len(IcdCalls) = Len(links)

\* the same, for the runs that return
CallsInStageOrderUnlessRaised == pc # "raised" => C10_CallsInStageOrder

ReportsOf(stage) == SelectSeq(progress, LAMBDA r : r[1] = stage)
ReportsUpTo(stage, n, total) == [k \in 1..n |-> <<stage, k, total>>]
PastStageTwo == {"links", "icd", "final", "return_empty", "return_notype", "return_final"}

\* C11: in stage 2 and in stage 3 a progress report k/total has been emitted
\* for every item k already processed, whether the item succeeded, raised an
\* exception or returned a body without a data key, before the next item is
\* processed; so a completed loop has reported 1/total .. total/total.
C11_ProgressReportedAfterEachItem ==
    /\ pc = "index" =>
         ReportsOf("index-of-tables") = ReportsUpTo("index-of-tables", i - 1, Len(codes))
    /\ pc \in PastStageTwo =>
         ReportsOf("index-of-tables") = ReportsUpTo("index-of-tables", Len(codes), Len(codes))
    /\ pc = "icd" =>
         ReportsOf("icd10-diseases") = ReportsUpTo("icd10-diseases", j - 1, Len(df_linkICD))
    /\ pc \in {"final", "return_final"} =>
         ReportsOf("icd10-diseases") = ReportsUpTo("icd10-diseases", Len(df_linkICD), Len(df_linkICD))

\* the same, for the items whose response carried a data key or raised
NoBodyWithoutData == \A k \in 1..Len(calls) : calls[k].kind # "nodata"
ProgressReportedUnlessNoData == NoBodyWithoutData => C11_ProgressReportedAfterEachItem

\* the links the index-of-tables responses of the run listed, in response
\* order, each with the benefit code its request was made for
RECURSIVE ListedLinks(_)
ListedLinks(cs) ==
    IF cs = <<>> THEN <<>>
    ELSE LET c == cs[Len(cs)]
         IN  ListedLinks(SubSeq(cs, 1, Len(cs) - 1))
               \o [k \in 1..Len(c.data) |-> [link |-> c.data[k], benefit |-> c.arg]]

IcdListed == SelectSeq(ListedLinks(IndexCalls), LAMBDA l : l.link.type = ICD)

RowFromCall(r, k) ==
    /\ IcdCalls[k].kind = "ok"
    /\ r.dc \in Range(IcdCalls[k].data)
    /\ r.bc = IcdListed[k].benefit

\* C12: every icd10-diseases request is made for a listed link whose type is
\* "icd-10-diseases" (the k-th request for the k-th such link), and every row
\* of the fetched and of the returned table was delivered by a successful one
\* of these requests and carries as benefit-code the code of the benefit whose
\* index-of-tables response listed that link.
C12_RowsCarryTheListingBenefit ==
    /\ Len(IcdCalls) <= Len(IcdListed)
    /\ \A k \in 1..Len(IcdCalls) : IcdCalls[k].arg = IcdListed[k].link.id
    /\ \A r \in Range(df_allICD) : \E k \in 1..Len(IcdCalls) : RowFromCall(r, k)
    /\ pc = "return_final" =>
         \A r \in Range(ret.res) : \E k \in 1..Len(IcdCalls) : RowFromCall(r, k)

\* two benefits: the first lists a table of another type, which is not
\* requested, the second an icd-10-diseases link whose row is returned
C12_Witness ==
    /\ pc = "return_final"
    /\ codes = <<"b1", "b2">>
    /\ Len(df_all) = 2
    /\ df_all[1].type = "other" /\ df_all[1].code = "b1"
    /\ df_all[2].type = ICD /\ df_all[2].code = "b2"
    /\ Len(IcdCalls) = 1
    /\ ret.res = <<[dc |-> "A00", bc |-> "b2"]>>

AppliedUnchanged == UNCHANGED <<code_filter, name_filter>>

AppliedFollowsEvent ==
    /\ ui' = "apply" =>
         /\ code_filter' = filt_code_input
         /\ name_filter' = filt_name_input
    /\ ui' = "clear" =>
         /\ filt_code_input' = <<>> /\ filt_name_input' = <<>>
         /\ code_filter' = <<>> /\ name_filter' = <<>>
    /\ ui' \notin {"apply", "clear"} => AppliedUnchanged

\* C13: in a session the applied filters (filt_code_applied,
\* filt_name_applied), with which the displayed table is computed, change only
\* on Apply, which copies the current input values into them, and on Clear,
\* which empties the input fields and the applied values; committing a text
\* in an input field or running a fetch leaves them as they were.
C13_AppliedChangesOnlyOnApplyAndClear == [][AppliedFollowsEvent]_vars

\* a fetch that came after an Apply and a later edit of the input: the table
\* shown is still filtered by the applied text, not by the text in the field
C13_Witness ==
    /\ ui = "fetch"
    /\ Len(df_icd) = 2
    /\ code_filter = <<"c">>
    /\ filt_code_input = <<".">>
    /\ name_filter = <<>>
    /\ filt_name_input = <<"c">>
    /\ df_filtr = ApplyFilters(df_icd, <<"c">>, <<>>)
    /\ df_filtr # ApplyFilters(df_icd, filt_code_input, filt_name_input)

====
